---------------------------- MODULE Spec2Model ----------------------------
(***************************************************************************)
(* One run of setup_marathon_job.main: parse SERVICE.INSTANCE, load the    *)
(* marathon configuration, connect, read the service instance              *)
(* configuration, check the docker image, build the Marathon descriptor,   *)
(* look the full id up, deploy (create or bounce) and send a sensu event.  *)
(*                                                                         *)
(* Python strings that the code splits or searches are sequences of        *)
(* one-character strings; exceptions are a pending class that either the   *)
(* handler at main's `except (KeyError, TypeError, ValueError)` catches or *)
(* that ends the process with a traceback and exit status 1.               *)
(***************************************************************************)
EXTENDS Integers, Sequences, FiniteSets, TLC

\* ------------------------------------------------------------------ bounds
\* iterations a service configuration or a running app may carry: 1..MaxIteration
MaxIteration == 2
\* largest num_ports / mem / cpus / instances value a configuration carries
MaxResource == 2

\* --------------------------------------------------------- python strings
ID_SPACER == "."

Digits == <<"1", "2", "3", "4", "5", "6", "7", "8", "9">>

\* str(i) for a one-digit positive integer
Str(i) == <<Digits[i]>>

\* s.split(sep) for a one-character separator
RECURSIVE Split(_, _)
Split(s, sep) ==
    IF \A i \in 1..Len(s) : s[i] # sep
    THEN <<s>>
    ELSE LET i == CHOOSE k \in 1..Len(s) :
                      s[k] = sep /\ \A j \in 1..(k - 1) : s[j] # sep
         IN  <<SubSeq(s, 1, i - 1)>> \o Split(SubSeq(s, i + 1, Len(s)), sep)

\* `sub in s` for python strings
Contains(sub, s) ==
    \E i \in 0..(Len(s) - Len(sub)) : SubSeq(s, i + 1, i + Len(sub)) = sub

\* marathon_tools.compose_job_id(name, instance, iteration)
compose_job_id(name, instance, iteration) ==
    name \o <<ID_SPACER>> \o instance \o <<ID_SPACER>> \o iteration

\* marathon_tools.remove_iteration_from_job_id(job_id): the id without its
\* iteration suffix and the separator before it
remove_iteration_from_job_id(job_id) ==
    LET seps == {i \in 1..Len(job_id) : job_id[i] = ID_SPACER}
        last == CHOOSE i \in seps : \A j \in seps : j <= i
    IN  SubSeq(job_id, 1, last - 1)

\* ---------------------------------------------------------- configuration
\* a configured number: an integer, or a string int() cannot read
IntVal(n) == [t |-> "int", n |-> n]
BadVal == [t |-> "str", n |-> 0]

\* python truthiness of service_config.get(key)
Truthy(cfg, key) ==
    /\ key \in DOMAIN cfg
    /\ ~(cfg[key].t = "int" /\ cfg[key].n = 0)

\* int(value) raises ValueError on a string that is not a number
IntRaises(cfg, key) == Truthy(cfg, key) /\ cfg[key].t = "str"

RECURSIVE Zeros(_)
Zeros(n) == IF n <= 0 THEN <<>> ELSE <<0>> \o Zeros(n - 1)

get_ports(service_config) ==
    IF Truthy(service_config, "num_ports")
    THEN Zeros(service_config["num_ports"].n)
    ELSE <<0>>

\* get_mem that tests for a missing key instead of a false value
get_mem_ifpresent(service_config) ==
    IF "mem" \in DOMAIN service_config THEN service_config["mem"].n ELSE 100

get_mem(service_config) ==
    IF Truthy(service_config, "mem") THEN service_config["mem"].n ELSE 100

get_cpus(service_config) ==
    IF Truthy(service_config, "cpus") THEN service_config["cpus"].n ELSE 1

get_instances(service_config) ==
    IF Truthy(service_config, "instances")
    THEN service_config["instances"].n ELSE 1

\* service_config.get('constraints'): "none" when the key is absent
get_constraints(service_config) ==
    IF "constraints" \in DOMAIN service_config
    THEN service_config["constraints"] ELSE "none"

get_bounce_method(service_config) ==
    IF "bounce_method" \in DOMAIN service_config
       /\ service_config["bounce_method"] # ""
    THEN service_config["bounce_method"] ELSE "brutal"

create_complete_config(name, url, docker_options, service_marathon_config) ==
    [id          |-> name,
     container   |-> [image |-> url, options |-> docker_options],
     uris        |-> <<>>,
     ports       |-> get_ports(service_marathon_config),
     mem         |-> get_mem(service_marathon_config),
     cpus        |-> get_cpus(service_marathon_config),
     constraints |-> get_constraints(service_marathon_config),
     instances   |-> get_instances(service_marathon_config)]

\* the resource keys whose int() coercion create_complete_config performs
ResourceKeys == {"num_ports", "mem", "cpus", "instances"}

\* ------------------------------------------------------------------ inputs
\* f with key k bound to v when present holds, f otherwise
With(f, present, k, v) == IF present THEN (k :> v) @@ f ELSE f

EmptyDict == [k \in {} |-> 0]

\* the SERVICE.INSTANCE tokens a caller may pass
Tokens ==
    { <<"a", ".", "m">>,              \* service a, instance m
      <<"a">>,                        \* no separator
      <<"a", ".", "n", ".", "x">>,    \* two separators
      <<".", "n">>,                   \* empty service part
      <<"a", ".">> }                  \* empty instance part

MarathonKeys == {"url", "user", "pass", "cluster", "docker_registry", "docker_options"}

MarathonValue(k) == IF k = "docker_registry" THEN <<"r">> ELSE <<k>>

\* marathon_tools.get_config(): the full configuration, or one with a key missing
MarathonConfigs ==
    { [k \in K |-> MarathonValue(k)] :
        K \in {MarathonKeys} \cup {MarathonKeys \ {k} : k \in MarathonKeys} }

Iterations == {Str(i) : i \in 1..MaxIteration}

DockerImages == { <<"i", ":", "t">>, <<"i">> }

BounceMethods == {"brutal", "crossover"}

\* resource settings of a service configuration: none set, all set to a
\* number, or mem set to a string that is not a number
ResourceProfiles ==
    { EmptyDict,
      [k \in ResourceKeys |-> IntVal(MaxResource)],
      [k \in {"mem"} |-> BadVal] }

\* marathon_tools.read_service_config(): a dict; empty when the instance has
\* no configuration for the cluster
ServiceConfigs ==
    { With(With(With(res, hasIt, "iteration", it),
                hasImg, "docker_image", img),
           hasBm, "bounce_method", bm) :
        res \in ResourceProfiles,
        hasIt \in BOOLEAN, it \in Iterations,
        hasImg \in BOOLEAN, img \in DockerImages,
        hasBm \in BOOLEAN, bm \in BounceMethods }

\* service_configuration_lib.read_monitoring(): team, runbook and one key
\* that pysensu_yelp.send_event does not accept, each present or not
MonitoringConfs ==
    { [k \in K |-> IF k = "team" THEN "infra" ELSE "v"] :
        K \in SUBSET {"team", "runbook", "bogus"} }

\* keyword arguments pysensu_yelp.send_event accepts besides the positional five
SendEventKwargs == {"alert_after", "page", "tip", "notification_email"}

\* ids of the apps Marathon may be running at start: iterations of a.m, one
\* app of instance a.n and one app of another service whose id contains "a.m"
AppUniverse ==
    { compose_job_id(<<"a">>, <<"m">>, it) : it \in Iterations }
        \cup { compose_job_id(<<"a">>, <<"n">>, Str(1)),
               compose_job_id(<<"b", "a">>, <<"m">>, Str(1)) }

\* ------------------------------------------------------------------- state
VARIABLES
    pc,                       \* position of the run in main / setup_service / deploy_service
    argv,                     \* args.service_instance
    service_name, instance_name,
    marathon_config,
    service_instance_config,
    full_id, docker_url, complete_config, bounce_method,
    old_app_ids,
    result,                   \* (status, output) returned by setup_service
    exc,                      \* exception caught by main's except clause
    exit_code, outcome,       \* process exit status and how the run ended
    apps,                     \* ids of the apps in Marathon
    apps0,                    \* ids of the apps in Marathon when the run started
    listed,                   \* what client.list_apps() returned
    registry_error,           \* the registry's response body contained "error"
    calls,                    \* external calls made so far, in order
    alerts,                   \* send_sensu_event invocations (status, output)
    events,                   \* pysensu_yelp.send_event calls that were accepted
    bounces,                  \* bounce_lib.brutal_bounce invocations
    creates,                  \* client.create_app invocations
    monitors,                 \* monitoring configurations send_sensu_event read
    first                     \* what an earlier run of the tool read and left

vars == <<pc, argv, service_name, instance_name, marathon_config,
          service_instance_config, full_id, docker_url, complete_config,
          bounce_method, old_app_ids, result, exc, exit_code, outcome,
          apps, apps0, listed, registry_error, calls, alerts, events,
          bounces, creates, monitors, first>>

Msg(text, arg) == [text |-> text, arg |-> arg]
NoMsg == Msg("", <<>>)
NoResult == [status |-> -1, output |-> NoMsg]
NoDescriptor == create_complete_config(<<>>, <<>>, <<>>, EmptyDict)

\* no earlier run
NoRun == [ran |-> FALSE, marathon_config |-> EmptyDict,
          service_instance_config |-> EmptyDict, registry_error |-> FALSE,
          outcome |-> "", exit_code |-> 0, apps |-> {}]

Init ==
    /\ pc = "start"
    /\ argv \in Tokens
    /\ service_name = <<>>
    /\ instance_name = <<>>
    /\ marathon_config = EmptyDict
    /\ service_instance_config = EmptyDict
    /\ full_id = <<>>
    /\ docker_url = <<>>
    /\ complete_config = NoDescriptor
    /\ bounce_method = ""
    /\ old_app_ids = {}
    /\ result = NoResult
    /\ exc = NoMsg
    /\ exit_code = 0
    /\ outcome = "running"
    /\ apps \in SUBSET AppUniverse
    /\ apps0 = apps
    /\ listed = {}
    /\ registry_error = FALSE
    /\ calls = <<>>
    /\ alerts = <<>>
    /\ events = <<>>
    /\ bounces = <<>>
    /\ creates = <<>>
    /\ monitors = <<>>
    /\ first = NoRun

\* ----------------------------------------------------------------- helpers
\* the first key of keys that dict d lacks
FirstMissing(keys, d) ==
    keys[CHOOSE i \in 1..Len(keys) :
            /\ keys[i] \notin DOMAIN d
            /\ \A j \in 1..(i - 1) : keys[j] \in DOMAIN d]

\* sys.exit(code), or the interpreter ending on an uncaught exception
Exit(code, how) ==
    /\ pc' = "done"
    /\ exit_code' = code
    /\ outcome' = how

\* Caught for a clause that names KeyError only
Caught_keyerror(cls) == cls = "KeyError"

\* `except (KeyError, TypeError, ValueError)` (main, line 284)
Caught(cls) == cls \in {"KeyError", "TypeError", "ValueError"}

\* an exception raised inside main's try block: KeyError, TypeError and
\* ValueError reach the except clause, any other class ends the process
Raise(cls, text) ==
    IF Caught(cls)
    THEN /\ pc' = "handle_error"
         /\ exc' = Msg(cls, text)
         /\ UNCHANGED <<exit_code, outcome>>
    ELSE /\ Exit(1, "Unhandled")
         /\ exc' = Msg(cls, text)

\* setup_service returns (status, output) to main
Return(status, text, arg, how) ==
    /\ pc' = "report"
    /\ result' = [status |-> status, output |-> Msg(text, arg)]
    /\ outcome' = how
    /\ UNCHANGED exit_code

\* send_sensu_event with the `if team` test left out
send_sensu_event_noteam(status, output) ==
    \E monitor_conf \in MonitoringConfs :
        /\ alerts' = Append(alerts, [status |-> status, output |-> output])
        /\ monitors' = Append(monitors, monitor_conf)
        /\ calls' = calls \o <<"read_monitoring", "send_event">>
        /\ events' = Append(events, [name    |-> service_name,
                                     runbook |-> "y/rb-marathon",
                                     status  |-> status,
                                     output  |-> output,
                                     team    |-> "",
                                     kwargs  |-> DOMAIN monitor_conf])

\* send_sensu_event(name, instance, soa_dir, status, output)
send_sensu_event(status, output) ==
    \E monitor_conf \in MonitoringConfs :
        LET full_name == <<"setup_marathon_job.">> \o service_name
                            \o <<ID_SPACER>> \o instance_name
            kwargs    == (DOMAIN monitor_conf \ {"runbook", "team"})
                            \cup {"alert_after"}
        IN  /\ alerts' = Append(alerts, [status |-> status, output |-> output])
            /\ monitors' = Append(monitors, monitor_conf)
            /\ IF "team" \in DOMAIN monitor_conf
               THEN /\ calls' = calls \o <<"read_monitoring", "send_event">>
                    /\ events' =
                         IF kwargs \subseteq SendEventKwargs
                         THEN Append(events,
                                     [name    |-> full_name,
                                      runbook |-> "y/rb-marathon",
                                      status  |-> status,
                                      output  |-> output,
                                      team    |-> monitor_conf["team"],
                                      kwargs  |-> kwargs])
                         ELSE events     \* TypeError: logged, not raised
               ELSE /\ calls' = calls \o <<"read_monitoring">>
                    /\ events' = events

\* ----------------------------------------------------------------- actions
\* main, lines 263-268
ParseIdentity ==
    /\ pc = "start"
    /\ LET parts == Split(argv, ID_SPACER)
       IN  IF Len(parts) < 2
           THEN /\ Exit(1, "InvalidInput")
                /\ UNCHANGED <<service_name, instance_name>>
           ELSE /\ service_name' = parts[1]
                /\ instance_name' = parts[2]
                /\ pc' = "parsed"
                /\ UNCHANGED <<exit_code, outcome>>
    /\ UNCHANGED <<argv, first, monitors, marathon_config, service_instance_config, full_id,
                   docker_url, complete_config, bounce_method, old_app_ids,
                   result, exc, apps, apps0, listed, registry_error, calls,
                   alerts, events, bounces, creates>>

\* main, lines 270-272: get_main_marathon_config and get_marathon_client
LoadMarathonConfig ==
    /\ pc = "parsed"
    /\ \E mc \in MarathonConfigs :
        /\ marathon_config' = mc
        /\ IF {"url", "user", "pass"} \subseteq DOMAIN mc
           THEN /\ calls' = calls \o <<"get_config", "MarathonClient">>
                /\ pc' = "connected"
                /\ UNCHANGED <<exit_code, outcome, exc>>
           ELSE /\ calls' = Append(calls, "get_config")
                /\ Exit(1, "Unhandled")
                /\ exc' = Msg("KeyError",
                              <<FirstMissing(<<"url", "user", "pass">>, mc)>>)
    /\ UNCHANGED <<argv, first, monitors, service_name, instance_name, service_instance_config,
                   full_id, docker_url, complete_config, bounce_method,
                   old_app_ids, result, apps, apps0, listed, registry_error,
                   alerts, events, bounces, creates>>

\* ConfigPresent with the test left out
ConfigPresent_always(cfg) == TRUE

\* `if service_instance_config` (main, line 277): a dict with no key is false
ConfigPresent(cfg) == DOMAIN cfg # {}

\* main, lines 274-277: read_service_config and the test of its result
ReadServiceConfig ==
    /\ pc = "connected"
    /\ IF "cluster" \in DOMAIN marathon_config
       THEN /\ \E cfg \in ServiceConfigs :
                /\ service_instance_config' = cfg
                /\ pc' = IF ConfigPresent(cfg) THEN "setup_service"
                                            ELSE "config_absent"
            /\ calls' = Append(calls, "read_service_config")
            /\ UNCHANGED <<exit_code, outcome, exc>>
       ELSE /\ Exit(1, "Unhandled")
            /\ exc' = Msg("KeyError", <<"cluster">>)
            /\ UNCHANGED <<service_instance_config, calls>>
    /\ UNCHANGED <<argv, first, monitors, service_name, instance_name, marathon_config, full_id,
                   docker_url, complete_config, bounce_method, old_app_ids,
                   result, apps, apps0, listed, registry_error, alerts, events,
                   bounces, creates>>

\* main, lines 288-293: no configuration for this cluster
ReportConfigAbsent ==
    /\ pc = "config_absent"
    /\ send_sensu_event("CRITICAL",
            Msg("Could not read marathon configuration file", argv))
    /\ Exit(1, "ConfigurationMissing")
    /\ UNCHANGED <<argv, first, service_name, instance_name, marathon_config,
                   service_instance_config, full_id, docker_url,
                   complete_config, bounce_method, old_app_ids, result, exc,
                   apps, apps0, listed, registry_error, bounces, creates>>

\* get_docker_url(registry_uri, docker_image), given whether the registry's
\* response body contains 'error'
get_docker_url(registry_uri, docker_image, body_has_error) ==
    IF body_has_error
    THEN <<>>
    ELSE <<"docker:///">> \o registry_uri \o <<"/">> \o docker_image

\* ImageMissing with the test left out
ImageMissing_never(url) == FALSE

\* `if not docker_url` (setup_service, line 233)
ImageMissing(url) == url = <<>>

\* setup_service, lines 228-235: compose the full id and get_docker_url
ResolveImage ==
    /\ pc = "setup_service"
    /\ LET cfg == service_instance_config
       IN
       IF "iteration" \notin DOMAIN cfg
       THEN /\ Raise("KeyError", <<"iteration">>)
            /\ UNCHANGED <<full_id, docker_url, result, calls, registry_error>>
       ELSE
       /\ full_id' = compose_job_id(service_name, instance_name, cfg["iteration"])
       /\ IF "docker_registry" \notin DOMAIN marathon_config
          THEN /\ Raise("KeyError", <<"docker_registry">>)
               /\ UNCHANGED <<docker_url, result, calls, registry_error>>
          ELSE IF "docker_image" \notin DOMAIN cfg
          THEN /\ Raise("KeyError", <<"docker_image">>)
               /\ UNCHANGED <<docker_url, result, calls, registry_error>>
          ELSE IF Len(Split(cfg["docker_image"], ":")) < 2
          THEN \* docker_image.split(':')[1] raises IndexError
               /\ Raise("IndexError", <<"list index out of range">>)
               /\ UNCHANGED <<docker_url, result, calls, registry_error>>
          ELSE
          \E body_has_error \in BOOLEAN :
              /\ calls' = Append(calls, "registry_get")
              /\ registry_error' = body_has_error
              /\ docker_url' = get_docker_url(marathon_config["docker_registry"],
                                              cfg["docker_image"], body_has_error)
              /\ IF ImageMissing(docker_url')
                 THEN /\ Return(1, "Docker image not found", cfg["docker_image"],
                                "ImageNotFound")
                      /\ UNCHANGED exc
                 ELSE /\ pc' = "build"
                      /\ UNCHANGED <<result, exc, exit_code, outcome>>
    /\ UNCHANGED <<argv, first, monitors, service_name, instance_name, marathon_config,
                   service_instance_config, complete_config, bounce_method,
                   old_app_ids, apps, apps0, listed, alerts, events, bounces,
                   creates>>

\* setup_service, lines 236-237: create_complete_config
BuildDescriptor ==
    /\ pc = "build"
    /\ LET cfg == service_instance_config
           order == <<"num_ports", "mem", "cpus", "instances">>
           bad == {i \in 1..Len(order) : IntRaises(cfg, order[i])}
       IN
       IF "docker_options" \notin DOMAIN marathon_config
       THEN /\ Raise("KeyError", <<"docker_options">>)
            /\ UNCHANGED complete_config
       ELSE IF bad # {}
       THEN /\ Raise("ValueError",
                     <<order[CHOOSE i \in bad : \A j \in bad : i <= j]>>)
            /\ UNCHANGED complete_config
       ELSE /\ complete_config' =
                 create_complete_config(full_id, docker_url,
                                        marathon_config["docker_options"], cfg)
            /\ pc' = "check_exists"
            /\ UNCHANGED <<exc, exit_code, outcome>>
    /\ UNCHANGED <<argv, first, monitors, service_name, instance_name, marathon_config,
                   service_instance_config, full_id, docker_url, bounce_method,
                   old_app_ids, result, apps, apps0, listed, registry_error,
                   calls, alerts, events, bounces, creates>>

\* AppExists for a lookup that always raises KeyError
AppExists_never(app_id, running) == FALSE

\* client.get_app(app_id) returns (TRUE) or raises KeyError (FALSE)
AppExists(app_id, running) == app_id \in running

\* setup_service, lines 238-246: client.get_app(full_id)
CheckExists ==
    /\ pc = "check_exists"
    /\ calls' = Append(calls, "get_app")
    /\ IF AppExists(full_id, apps)
       THEN /\ Return(0, "Service was already deployed.", <<>>, "AlreadyDeployed")
            /\ UNCHANGED bounce_method
       ELSE \* KeyError: not in Marathon, go on to deploy_service
            /\ bounce_method' = get_bounce_method(service_instance_config)
            /\ pc' = "deploy_list"
            /\ UNCHANGED <<result, exit_code, outcome>>
    /\ UNCHANGED <<argv, first, monitors, service_name, instance_name, marathon_config,
                   service_instance_config, full_id, docker_url,
                   complete_config, old_app_ids, exc, apps, apps0, listed,
                   registry_error, alerts, events, bounces, creates>>

\* OldAppIds with the `if filter_name in app.id` condition left out
OldAppIds_all(filter_name, app_list) == app_list

\* OldAppIds with `filter_name == app.id` in place of `filter_name in app.id`
OldAppIds_equal(filter_name, app_list) ==
    {id \in app_list : id = filter_name}

\* the ids of app_list that contain filter_name (deploy_service, line 202)
OldAppIds(filter_name, app_list) ==
    {id \in app_list : Contains(filter_name, id)}

\* deploy_service, lines 200-202: client.list_apps() and the filter
DeployList ==
    /\ pc = "deploy_list"
    /\ calls' = Append(calls, "list_apps")
    /\ listed' = apps
    /\ old_app_ids' = OldAppIds(remove_iteration_from_job_id(full_id), apps)
    /\ pc' = "deploy_act"
    /\ UNCHANGED <<argv, first, monitors, service_name, instance_name, marathon_config,
                   service_instance_config, full_id, docker_url,
                   complete_config, bounce_method, result, exc, exit_code,
                   outcome, apps, apps0, registry_error, alerts, events,
                   bounces, creates>>

\* bounce_lib.brutal_bounce(old_ids, config, client): the new app replaces
\* the old ones
brutal_bounce(old_ids, config, running) == (running \ old_ids) \cup {config.id}

\* BounceRecognized with the comparison left out
BounceRecognized_any(method) == TRUE

\* `bounce_method == "brutal"` (deploy_service, line 206)
BounceRecognized(method) == method = "brutal"

\* BounceResult with the `return` of the except clause left out, so that a
\* conflict falls through to the success return
BounceResult_fallthrough(conflict) ==
    [status |-> 0, text |-> "Service deployed.",
     how |-> IF conflict THEN "BounceConflict" ELSE "Bounced"]

\* what deploy_service returns after a brutal_bounce call that raised
\* IOError (conflict) or returned (lines 211-213, 217-218)
BounceResult(conflict) ==
    IF conflict
    THEN [status |-> 1, text |-> "Service is taking a while to bounce",
          how |-> "BounceConflict"]
    ELSE [status |-> 0, text |-> "Service deployed.", how |-> "Bounced"]

\* deploy_service, lines 203-218: bounce, refuse or create
DeployAct ==
    /\ pc = "deploy_act"
    /\ IF old_app_ids # {}
       THEN IF BounceRecognized(bounce_method)
            THEN /\ calls' = Append(calls, "brutal_bounce")
                 /\ \E conflict \in BOOLEAN :
                      LET r == BounceResult(conflict)
                      IN  /\ bounces' = Append(bounces,
                                               [old_app_ids |-> old_app_ids,
                                                config      |-> complete_config,
                                                conflict    |-> conflict])
                          /\ apps' = IF conflict THEN apps
                                     ELSE brutal_bounce(old_app_ids,
                                                        complete_config, apps)
                          /\ Return(r.status, r.text, <<>>, r.how)
                 /\ UNCHANGED creates
            ELSE /\ Return(1, "bounce_method not recognized", <<bounce_method>>,
                           "UnrecognizedBounceMethod")
                 /\ UNCHANGED <<apps, calls, bounces, creates>>
       ELSE /\ calls' = Append(calls, "create_app")
            /\ creates' = Append(creates, complete_config)
            /\ apps' = apps \cup {complete_config.id}
            /\ Return(0, "Service deployed.", <<>>, "Created")
            /\ UNCHANGED bounces
    /\ UNCHANGED <<argv, first, monitors, service_name, instance_name, marathon_config,
                   service_instance_config, full_id, docker_url,
                   complete_config, bounce_method, old_app_ids, exc, apps0,
                   listed, registry_error, alerts, events>>

\* SensuStatus with the two branches swapped
SensuStatus_swapped(status) == IF status # 0 THEN "OK" ELSE "CRITICAL"

\* main, line 281: CRITICAL if status else OK
SensuStatus(status) == IF status # 0 THEN "CRITICAL" ELSE "OK"

\* main, lines 281-283: report what setup_service returned and exit with it
Report ==
    /\ pc = "report"
    /\ send_sensu_event(SensuStatus(result.status), result.output)
    /\ pc' = "done"
    /\ exit_code' = result.status
    /\ UNCHANGED <<argv, first, service_name, instance_name, marathon_config,
                   service_instance_config, full_id, docker_url,
                   complete_config, bounce_method, old_app_ids, result, exc,
                   outcome, apps, apps0, listed, registry_error, bounces,
                   creates>>

\* HandleError with the send_sensu_event call left out
HandleError_silent ==
    /\ pc = "handle_error"
    /\ Exit(1, "UnexpectedDataError")
    /\ UNCHANGED <<argv, first, monitors, service_name, instance_name, marathon_config,
                   service_instance_config, full_id, docker_url,
                   complete_config, bounce_method, old_app_ids, result, exc,
                   apps, apps0, listed, registry_error, calls, alerts, events,
                   bounces, creates>>

\* main, lines 284-287: a KeyError, TypeError or ValueError was caught
HandleError ==
    /\ pc = "handle_error"
    /\ send_sensu_event("CRITICAL", exc)
    /\ Exit(1, "UnexpectedDataError")
    /\ UNCHANGED <<argv, first, service_name, instance_name, marathon_config,
                   service_instance_config, full_id, docker_url,
                   complete_config, bounce_method, old_app_ids, result, exc,
                   apps, apps0, listed, registry_error, bounces, creates>>

Next ==
    \/ ParseIdentity
    \/ LoadMarathonConfig
    \/ ReadServiceConfig
    \/ ReportConfigAbsent
    \/ ResolveImage
    \/ BuildDescriptor
    \/ CheckExists
    \/ DeployList
    \/ DeployAct
    \/ Report
    \/ HandleError

Spec == Init /\ [][Next]_vars

\* ------------------------------------------------------- a concurrent run
\* another run of the tool for the same service instance changes Marathon
\* between this run's get_app (line 241) and its list_apps (line 201) or its
\* create_app / brutal_bounce (lines 207, 216): it creates the app of some
\* iteration or bounces the running iterations to it
OtherRun ==
    /\ pc \in {"deploy_list", "deploy_act"}
    /\ \E it \in Iterations :
         LET id  == compose_job_id(service_name, instance_name, it)
             old == OldAppIds(remove_iteration_from_job_id(id), apps)
         IN  /\ id \notin apps
             /\ \/ apps' = apps \cup {id}
                \/ apps' = (apps \ old) \cup {id}
    /\ UNCHANGED <<pc, argv, service_name, instance_name, marathon_config,
                   service_instance_config, full_id, docker_url,
                   complete_config, bounce_method, old_app_ids, result, exc,
                   exit_code, outcome, apps0, listed, registry_error, calls,
                   alerts, events, bounces, creates, monitors, first>>

NextRace ==
    \/ Next
    \/ OtherRun

SpecRace == Init /\ [][NextRace]_vars

\* ------------------------------------------------- the descriptor builder
\* a configured number given as a string of digits: int() reads it as n
NumStr(n) == [t |-> "numstr", n |-> n]

\* what a resource key of a service configuration may hold
ResourceValues ==
    {IntVal(n) : n \in -1..MaxResource}
        \cup {NumStr(0), NumStr(MaxResource), BadVal}

Absent == [t |-> "absent", n |-> 0]

\* f with key k bound to v unless v is Absent
Opt(f, k, v) == IF v = Absent THEN f ELSE (k :> v) @@ f

\* service configurations with an iteration and an image, and every
\* combination of resource settings and bounce methods
DescriptorConfigs ==
    { With(Opt(Opt(Opt(Opt([iteration |-> Str(1), docker_image |-> <<"i", ":", "t">>],
                           "num_ports", p), "mem", m), "cpus", c), "instances", i),
           hasBm, "bounce_method", bm) :
        p \in ResourceValues \cup {Absent}, m \in ResourceValues \cup {Absent},
        c \in ResourceValues \cup {Absent}, i \in ResourceValues \cup {Absent},
        hasBm \in BOOLEAN, bm \in BounceMethods \cup {""} }

\* setup_service has found the image of a.m and is about to build the
\* descriptor (line 236); Marathon runs no app
InitDescriptor ==
    /\ pc = "build"
    /\ argv = <<"a", ".", "m">>
    /\ service_name = <<"a">>
    /\ instance_name = <<"m">>
    /\ marathon_config = [k \in MarathonKeys |-> MarathonValue(k)]
    /\ service_instance_config \in DescriptorConfigs
    /\ full_id = compose_job_id(service_name, instance_name,
                                service_instance_config["iteration"])
    /\ docker_url = get_docker_url(marathon_config["docker_registry"],
                                   service_instance_config["docker_image"], FALSE)
    /\ complete_config = NoDescriptor
    /\ bounce_method = ""
    /\ old_app_ids = {}
    /\ result = NoResult
    /\ exc = NoMsg
    /\ exit_code = 0
    /\ outcome = "running"
    /\ apps = {}
    /\ apps0 = apps
    /\ listed = {}
    /\ registry_error = FALSE
    /\ calls = <<"get_config", "MarathonClient", "read_service_config",
                 "registry_get">>
    /\ alerts = <<>>
    /\ events = <<>>
    /\ bounces = <<>>
    /\ creates = <<>>
    /\ monitors = <<>>
    /\ first = NoRun

NextDescriptor ==
    \/ BuildDescriptor
    \/ CheckExists

SpecDescriptor == InitDescriptor /\ [][NextDescriptor]_vars

\* ------------------------------------------------------------ a second run
\* main started again for the same SERVICE.INSTANCE token after a run that
\* ended with exit status 0: a new process, which keeps nothing of the
\* earlier one but what that run left in Marathon
Rerun ==
    /\ pc = "done"
    /\ exit_code = 0
    /\ ~first.ran
    /\ first' = [ran                     |-> TRUE,
                 marathon_config         |-> marathon_config,
                 service_instance_config |-> service_instance_config,
                 registry_error          |-> registry_error,
                 outcome                 |-> outcome,
                 exit_code               |-> exit_code,
                 apps                    |-> apps]
    /\ pc' = "start"
    /\ service_name' = <<>>
    /\ instance_name' = <<>>
    /\ marathon_config' = EmptyDict
    /\ service_instance_config' = EmptyDict
    /\ full_id' = <<>>
    /\ docker_url' = <<>>
    /\ complete_config' = NoDescriptor
    /\ bounce_method' = ""
    /\ old_app_ids' = {}
    /\ result' = NoResult
    /\ exc' = NoMsg
    /\ exit_code' = 0
    /\ outcome' = "running"
    /\ apps0' = apps
    /\ listed' = {}
    /\ registry_error' = FALSE
    /\ calls' = <<>>
    /\ alerts' = <<>>
    /\ events' = <<>>
    /\ bounces' = <<>>
    /\ creates' = <<>>
    /\ monitors' = <<>>
    /\ UNCHANGED <<argv, apps>>

\* the second run reads the configuration files the first run read and gets
\* the registry answer the first run got
SameInputs ==
    first.ran =>
        /\ pc = "parsed" => marathon_config' = first.marathon_config
        /\ pc = "connected" =>
              service_instance_config' = first.service_instance_config
        /\ pc = "setup_service" => registry_error' = first.registry_error

NextRerun ==
    \/ Next /\ SameInputs
    \/ Rerun

SpecRerun == Init /\ [][NextRerun]_vars

\* ------------------------------------------------------------ properties
Called(op) == \E i \in 1..Len(calls) : calls[i] = op

CallCount(op) == Cardinality({i \in 1..Len(calls) : calls[i] = op})

\* the run ended without reaching a send_sensu_event call: the token had no
\* separator, a key main reads outside its try block was missing, or an
\* exception of a class main does not catch was raised
EndedWithoutReport ==
    \/ Len(Split(argv, ID_SPACER)) < 2
    \/ ~({"url", "user", "pass", "cluster"} \subseteq DOMAIN marathon_config)
    \/ exc.text = "IndexError"

\* C1 (as stated): every run that has ended, whatever the outcome, has
\* invoked send_sensu_event exactly once.
C1_AlertOnceEveryOutcome ==
    pc = "done" => Len(alerts) = 1

\* C1 (amended): send_sensu_event is never invoked more than once and never
\* before the run ends; a run that ended through sys.exit after the identity
\* was parsed (configuration missing, a setup_service result, or a caught
\* KeyError/TypeError/ValueError) invoked it exactly once, and a run that
\* ended on a token without separator or on an uncaught exception invoked it
\* zero times.
C1_AlertOncePerReportedOutcome ==
    /\ Len(alerts) <= 1
    /\ pc # "done" => alerts = <<>>
    /\ pc = "done" => Len(alerts) = IF EndedWithoutReport THEN 0 ELSE 1

C1_Witness ==
    /\ pc = "done"
    /\ exc.text = "ValueError"
    /\ Len(alerts) = 1

\* C2: the exit code is 0 exactly when the run created the app, found it
\* already deployed or bounced it successfully; every other ended run
\* exits with 1.
C2_ExitCode ==
    pc = "done" =>
        /\ exit_code \in {0, 1}
        /\ exit_code = 0 <=> outcome \in {"Created", "AlreadyDeployed", "Bounced"}
        /\ outcome = "Created" <=> creates # <<>>
        /\ outcome = "Bounced" <=>
               (bounces # <<>> /\ ~bounces[Len(bounces)].conflict)
        /\ outcome = "AlreadyDeployed" <=>
               (Called("get_app") /\ ~Called("list_apps"))

C2_Witness ==
    /\ pc = "done"
    /\ exit_code = 1
    /\ outcome = "BounceConflict"

\* the service instance configuration was read and is absent
ConfigAbsentRead ==
    /\ Called("read_service_config")
    /\ DOMAIN service_instance_config = {}

\* C3 (as stated): with the configuration absent the run reports CRITICAL,
\* exits 1 and has made no registry query and no orchestrator contact,
\* connect included.
C3_AbsentNoContactAtAll ==
    ConfigAbsentRead =>
        /\ \A op \in {"registry_get", "MarathonClient", "get_app", "list_apps",
                      "create_app", "brutal_bounce"} : ~Called(op)
        /\ pc = "done" => exit_code = 1

\* C3 (amended): with the configuration absent the run reports one CRITICAL
\* alert "Could not read marathon configuration file ..." and exits 1, and
\* no registry query, get app, list apps, create app or bounce call is made
\* at any point of the run; the client is constructed (connect) before the
\* configuration is read.
C3_AbsentNoDeployContact ==
    ConfigAbsentRead =>
        /\ \A op \in {"registry_get", "get_app", "list_apps", "create_app",
                      "brutal_bounce"} : ~Called(op)
        /\ Called("MarathonClient")
        /\ apps = apps0
        /\ pc = "done" =>
              /\ exit_code = 1
              /\ alerts = <<[status |-> "CRITICAL",
                             output |-> Msg("Could not read marathon configuration file",
                                            argv)]>>

C3_Witness ==
    /\ ConfigAbsentRead
    /\ pc = "done"
    /\ Len(events) = 1

\* deploy_service has listed the apps and acted on the listing
PastDeploy == Called("list_apps") /\ pc \in {"report", "done"}

\* the listed ids that contain the full id without its iteration suffix
ListedMatches ==
    {id \in listed : Contains(remove_iteration_from_job_id(full_id), id)}

Result(status, text, arg) == [status |-> status, output |-> Msg(text, arg)]

\* C4: when the registry's answer makes image resolution come back empty,
\* setup_service returns (1, "Docker image not found: <docker_image>") and
\* the run makes no get app, list apps, create app or bounce call, also when
\* the full id is already running.
C4_ImageNotFoundNoOrchestrator ==
    (Called("registry_get") /\ registry_error) =>
        /\ result = Result(1, "Docker image not found",
                           service_instance_config["docker_image"])
        /\ \A op \in {"get_app", "list_apps", "create_app", "brutal_bounce"} :
              ~Called(op)
        /\ creates = <<>>
        /\ bounces = <<>>
        /\ apps = apps0

C4_Witness ==
    /\ Called("registry_get")
    /\ registry_error
    /\ full_id \in apps0
    /\ pc = "done"

\* C5: when the full id is in Marathon and the image was found, setup_service
\* returns (0, "Service was already deployed.") and deploy_service is not
\* called: no list apps, create app or bounce call, and the set of apps is
\* unchanged.
C5_AlreadyDeployedNoDeploy ==
    (Called("get_app") /\ full_id \in apps0) =>
        /\ result = Result(0, "Service was already deployed.", <<>>)
        /\ \A op \in {"list_apps", "create_app", "brutal_bounce"} : ~Called(op)
        /\ creates = <<>>
        /\ bounces = <<>>
        /\ apps = apps0

C5_Witness ==
    /\ Called("get_app")
    /\ full_id \in apps0
    /\ Cardinality(apps0) > 1
    /\ pc = "done"
    /\ exit_code = 0

\* C6: when no listed id contains the filter name, deploy_service calls
\* create_app once with the descriptor built for the full id, does not call
\* brutal_bounce and returns (0, "Service deployed."), whatever the bounce
\* method is.
C6_NoPriorCreates ==
    (PastDeploy /\ ListedMatches = {}) =>
        /\ creates = <<complete_config>>
        /\ complete_config =
              create_complete_config(full_id, docker_url,
                                     marathon_config["docker_options"],
                                     service_instance_config)
        /\ CallCount("create_app") = 1
        /\ bounces = <<>>
        /\ ~Called("brutal_bounce")
        /\ result = Result(0, "Service deployed.", <<>>)
        /\ apps = listed \cup {full_id}

C6_Witness ==
    /\ PastDeploy
    /\ ListedMatches = {}
    /\ listed # {}
    /\ bounce_method = "crossover"
    /\ pc = "done"

\* C7: when some listed id contains the filter name and the bounce method is
\* "brutal", deploy_service calls brutal_bounce once with exactly the
\* matching ids and the new descriptor, does not call create_app, and
\* returns (0, "Service deployed.") unless the call signalled a conflict.
C7_BrutalBounceDelegated ==
    (PastDeploy /\ ListedMatches # {} /\ bounce_method = "brutal") =>
        /\ Len(bounces) = 1
        /\ bounces[1].old_app_ids = ListedMatches
        /\ bounces[1].config = complete_config
        /\ complete_config.id = full_id
        /\ creates = <<>>
        /\ ~Called("create_app")
        /\ ~bounces[1].conflict => result = Result(0, "Service deployed.", <<>>)

C7_Witness ==
    /\ PastDeploy
    /\ bounce_method = "brutal"
    /\ ListedMatches # {}
    /\ ListedMatches # listed
    /\ bounces # <<>>
    /\ ~bounces[1].conflict
    /\ pc = "done"

\* C8: when some listed id contains the filter name and the bounce method is
\* not "brutal", deploy_service returns (1, "bounce_method not recognized:
\* <value>") and calls neither create_app nor brutal_bounce: the old
\* iterations still run and the new one does not.
C8_UnrecognizedRefused ==
    (PastDeploy /\ ListedMatches # {} /\ bounce_method # "brutal") =>
        /\ result = Result(1, "bounce_method not recognized", <<bounce_method>>)
        /\ creates = <<>>
        /\ bounces = <<>>
        /\ ~Called("create_app")
        /\ ~Called("brutal_bounce")
        /\ apps = apps0
        /\ ListedMatches \subseteq apps
        /\ full_id \notin apps

C8_Witness ==
    /\ PastDeploy
    /\ ListedMatches # {}
    /\ bounce_method = "crossover"
    /\ pc = "done"
    /\ exit_code = 1

\* the run ended as UnrecognizedBounceMethod: failure result, CRITICAL alert,
\* exit code 1
EndedUnrecognized ==
    /\ result = Result(1, "bounce_method not recognized", <<bounce_method>>)
    /\ alerts = <<[status |-> "CRITICAL", output |-> result.output]>>
    /\ exit_code = 1

\* C9 (as stated): every run that reached deploy_service with a bounce
\* method other than "brutal" ends as UnrecognizedBounceMethod, whether or
\* not a prior iteration is listed.
C9_NonBrutalAlwaysFails ==
    (pc = "done" /\ Called("list_apps") /\ bounce_method # "brutal") =>
        EndedUnrecognized

\* C9 (amended): a run that reached deploy_service with a bounce method
\* other than "brutal" ends as UnrecognizedBounceMethod (failure result,
\* CRITICAL alert, exit code 1) when some listed id contains the filter
\* name; when none does, the app is created and the run ends with
\* (0, "Service deployed."), an OK alert and exit code 0.
C9_NonBrutalFailsOnlyWithPrior ==
    (pc = "done" /\ Called("list_apps") /\ bounce_method # "brutal") =>
        IF ListedMatches # {}
        THEN EndedUnrecognized
        ELSE /\ result = Result(0, "Service deployed.", <<>>)
             /\ alerts = <<[status |-> "OK", output |-> result.output]>>
             /\ exit_code = 0
             /\ creates = <<complete_config>>

C9_Witness ==
    /\ pc = "done"
    /\ Called("list_apps")
    /\ bounce_method = "crossover"
    /\ ListedMatches # {}
    /\ Len(alerts) = 1

\* C10: brutal_bounce is called at most once in a run; when it signals a
\* conflict deploy_service returns (1, "Service is taking a while to
\* bounce"), create_app is not called, and the run ends with a CRITICAL
\* alert and exit code 1.
C10_ConflictNoRetry ==
    /\ Len(bounces) <= 1
    /\ CallCount("brutal_bounce") = Len(bounces)
    /\ (bounces # <<>> /\ bounces[1].conflict) =>
          /\ result = Result(1, "Service is taking a while to bounce", <<>>)
          /\ creates = <<>>
          /\ ~Called("create_app")
          /\ pc = "done" =>
                /\ exit_code = 1
                /\ alerts = <<[status |-> "CRITICAL", output |-> result.output]>>

C10_Witness ==
    /\ bounces # <<>>
    /\ bounces[1].conflict
    /\ pc = "done"
    /\ Len(alerts) = 1

\* a KeyError, TypeError or ValueError was raised in the run
DataErrorRaised == exc.text \in {"KeyError", "TypeError", "ValueError"}

\* every key main reads from marathon_config outside its try block is there
MarathonKeysOutsideTry ==
    {"url", "user", "pass", "cluster"} \subseteq DOMAIN marathon_config

\* the run ended with one CRITICAL alert carrying the error's text and exit 1
ReportedDataError ==
    /\ alerts = <<[status |-> "CRITICAL", output |-> exc]>>
    /\ exit_code = 1

\* C11 (as stated): a KeyError, TypeError or ValueError raised at any step,
\* from loading the marathon configuration on, is caught in main, reported
\* as a CRITICAL alert carrying its text, and the process exits 1.
C11_EveryDataErrorCaught ==
    (pc = "done" /\ DataErrorRaised) => ReportedDataError

\* C11 (amended): a KeyError, TypeError or ValueError raised by
\* setup_service (from composing the full id to building the descriptor and
\* deploying) is caught in main, reported as one CRITICAL alert carrying its
\* text, and the process exits 1; a KeyError raised while main reads url,
\* user, pass or cluster from the marathon configuration is not caught: the
\* process ends with exit status 1 and without an alert.
C11_DataErrorCaughtInSetupService ==
    /\ (pc = "handle_error") => (DataErrorRaised /\ MarathonKeysOutsideTry)
    /\ (pc = "done" /\ DataErrorRaised) =>
          IF MarathonKeysOutsideTry
          THEN ReportedDataError /\ Called("read_service_config")
          ELSE alerts = <<>> /\ exit_code = 1 /\ ~Called("read_service_config")

C11_Witness ==
    /\ pc = "done"
    /\ exc = Msg("ValueError", <<"mem">>)
    /\ Len(events) = 1
    /\ events[1].output = exc

\* the token splits into exactly two non-empty parts
WellFormedToken ==
    LET parts == Split(argv, ID_SPACER)
    IN  Len(parts) = 2 /\ parts[1] # <<>> /\ parts[2] # <<>>

\* C12: a SERVICE.INSTANCE token that does not split into exactly two
\* non-empty parts ends the run at once: exit status 1, no alert, no
\* configuration load, registry query or orchestrator call.
C12_MalformedTokenRejected ==
    (pc # "start" /\ ~WellFormedToken) =>
        /\ pc = "done"
        /\ exit_code = 1
        /\ alerts = <<>>
        /\ calls = <<>>

\* the exit code the run's result alone determines: the status setup_service
\* returned, or 1 when it returned nothing
ExitOfResult == IF result = NoResult THEN 1 ELSE result.status

\* C13: send_sensu_event never changes how the run ends: without a team in
\* the monitoring configuration no send_event call is made, with a key
\* send_event does not accept the call is made and its TypeError swallowed,
\* and in both cases the run goes on to exit with the code its result
\* determines.
C13_AlertingNeverChangesOutcome ==
    (pc = "done" /\ monitors # <<>>) =>
        LET conf == monitors[1]
        IN  /\ Len(monitors) = 1
            /\ "team" \notin DOMAIN conf =>
                  /\ ~Called("send_event")
                  /\ events = <<>>
            /\ ("team" \in DOMAIN conf /\ "bogus" \in DOMAIN conf) =>
                  /\ CallCount("send_event") = 1
                  /\ events = <<>>
            /\ ("team" \in DOMAIN conf /\ "bogus" \notin DOMAIN conf) =>
                  /\ Len(events) = 1
                  /\ events[1].kwargs = {"alert_after"}
                  /\ events[1].runbook = "y/rb-marathon"
            /\ exit_code = ExitOfResult

C13_Witness ==
    /\ pc = "done"
    /\ monitors # <<>>
    /\ DOMAIN monitors[1] = {"team", "bogus"}
    /\ result.status = 0
    /\ exit_code = 0

\* C14: once setup_service has returned, the alert of the run and the exit
\* code agree with its status: status 0 gives an OK alert and exit 0, any
\* other status a CRITICAL alert and exit 1.
C14_AlertMatchesExit ==
    (pc = "done" /\ result # NoResult) =>
        /\ exit_code = result.status
        /\ exit_code \in {0, 1}
        /\ alerts # <<>>
        /\ \A i \in 1..Len(alerts) :
              /\ alerts[i].status = "OK" <=> exit_code = 0
              /\ alerts[i].status = "CRITICAL" <=> exit_code = 1
        /\ \A i \in 1..Len(events) :
              events[i].status = alerts[1].status

C14_Witness ==
    /\ pc = "done"
    /\ result.status = 0
    /\ Len(events) = 1
    /\ events[1].status = "OK"

\* create_complete_config has returned
DescriptorBuilt == pc \in {"check_exists", "deploy_list"}

\* C15: whenever create_complete_config returns, zero and negative settings
\* included, the descriptor has the full id as id, at least one port, and
\* positive mem and cpus.
C15_DescriptorWellFormed ==
    DescriptorBuilt =>
        /\ complete_config.id = full_id
        /\ Len(complete_config.ports) >= 1
        /\ complete_config.mem > 0
        /\ complete_config.cpus > 0

\* service_config.get(key) is None or a false value
Unset(cfg, key) == key \notin DOMAIN cfg \/ cfg[key] = IntVal(0)

\* C16: get_mem, get_cpus and get_instances give 100, 1 and 1 when the key
\* is absent or false and the integer the configured value reads as
\* otherwise; get_bounce_method gives "brutal" when the key is absent or
\* empty and the configured string otherwise.
C16_DefaultsAndCoercion ==
    LET cfg == service_instance_config
    IN  /\ DescriptorBuilt =>
              /\ complete_config.mem =
                    IF Unset(cfg, "mem") THEN 100 ELSE cfg["mem"].n
              /\ complete_config.cpus =
                    IF Unset(cfg, "cpus") THEN 1 ELSE cfg["cpus"].n
              /\ complete_config.instances =
                    IF Unset(cfg, "instances") THEN 1 ELSE cfg["instances"].n
        /\ pc = "deploy_list" =>
              bounce_method =
                  IF "bounce_method" \notin DOMAIN cfg \/ cfg["bounce_method"] = ""
                  THEN "brutal" ELSE cfg["bounce_method"]

C16_Witness ==
    /\ pc = "deploy_list"
    /\ "mem" \in DOMAIN service_instance_config
    /\ service_instance_config["mem"] = IntVal(0)
    /\ complete_config.mem = 100
    /\ "cpus" \in DOMAIN service_instance_config
    /\ service_instance_config["cpus"] = NumStr(MaxResource)
    /\ complete_config.cpus = MaxResource
    /\ "instances" \notin DOMAIN service_instance_config
    /\ "bounce_method" \in DOMAIN service_instance_config
    /\ service_instance_config["bounce_method"] = "crossover"
    /\ bounce_method = "crossover"

\* id is an iteration of the service instance being deployed, other than
\* the one being deployed
PriorIteration(id) ==
    LET parts == Split(id, ID_SPACER)
    IN  /\ Len(parts) = 3
        /\ parts[1] = service_name
        /\ parts[2] = instance_name
        /\ id # full_id

\* C17: every id deploy_service collects into old_app_ids, and every id it
\* hands to brutal_bounce, is a prior iteration of the service instance
\* being deployed: same service, same instance, another iteration (stated
\* for the runs whose token names a service and an instance).
C17_OldIdsAreSameInstance ==
    WellFormedToken =>
        /\ \A id \in old_app_ids : PriorIteration(id)
        /\ \A i \in 1..Len(bounces) :
              \A id \in bounces[i].old_app_ids : PriorIteration(id)

\* positions of calls at which Marathon is changed
Mutating == {i \in 1..Len(calls) : calls[i] \in {"create_app", "brutal_bounce"}}

\* C20: a run issues at most one mutating call, one create_app or one
\* brutal_bounce, and only after the registry query found the image and
\* after that get_app reported the full id as not found.
C20_OneMutationAfterChecks ==
    /\ Cardinality(Mutating) <= 1
    /\ Len(creates) + Len(bounces) = Cardinality(Mutating)
    /\ \A i \in Mutating :
          /\ \E j, k \in 1..(i - 1) :
                /\ j < k
                /\ calls[j] = "registry_get"
                /\ calls[k] = "get_app"
          /\ ~registry_error
          /\ docker_url # <<>>
          /\ full_id \notin apps0

C20_Witness ==
    /\ pc = "done"
    /\ Len(bounces) = 1
    /\ creates = <<>>
    /\ exit_code = 0

\* C18: the old ids handed to brutal_bounce never contain the full id being
\* deployed, and create_app is never called for a full id Marathon already
\* runs, also when another run of the tool changes Marathon between this
\* run's get_app and its list_apps or its action (stated for the runs whose
\* token names a service and an instance).
C18_NoSelfBounceNoDuplicateCreate ==
    [][ WellFormedToken =>
          /\ bounces' # bounces =>
                full_id \notin bounces'[Len(bounces')].old_app_ids
          /\ creates' # creates => full_id \notin apps ]_vars

\* C19: after a run that ended by creating the app directly with exit status
\* 0, a second run with the same configuration and the same registry answer,
\* Marathon otherwise untouched, ends with (0, "Service was already
\* deployed."), exit status 0, calls neither create_app nor brutal_bounce,
\* and leaves Marathon's apps as the first run left them.
C19_SecondRunIsNoOp ==
    (first.ran /\ first.outcome = "Created") =>
        /\ creates = <<>>
        /\ bounces = <<>>
        /\ ~Called("create_app")
        /\ ~Called("brutal_bounce")
        /\ apps = first.apps
        /\ pc = "done" =>
              /\ result = Result(0, "Service was already deployed.", <<>>)
              /\ exit_code = 0

C19_Witness ==
    /\ first.ran
    /\ first.outcome = "Created"
    /\ first.exit_code = 0
    /\ pc = "done"
    /\ Called("get_app")
    /\ WellFormedToken
    /\ full_id \in first.apps
    /\ first.apps # {full_id}

=============================================================================
